---- MODULE Spec2Model ----
(***************************************************************************)
(* Model of ChatPromptWidget                                               *)
(* (src/src/airunner/gui/widgets/llm/chat_prompt_widget.py): the token     *)
(* buffer, the periodic flush, the rendered message layout, the            *)
(* generating / held_message session flags and the conversation lifecycle  *)
(* handlers.                                                               *)
(*                                                                         *)
(* A text is a sequence of tokens: " " is a whitespace character, "a" and  *)
(* "b" are other characters, UserPrefix / BotPrefix stand for a leading    *)
(* "<username>: " / "<botname>: ".  An optional text that is None is the   *)
(* one-token text NoneText, an optional id that is None is NoneId.         *)
(*                                                                         *)
(* Every handler runs to completion on the Qt event thread, so one action  *)
(* is one whole handler.  Outbound calls to self.api.llm made by a handler *)
(* are recorded, in order, in calls; ev records the handler that ran last  *)
(* and its arguments; arrived records the fragments accepted since the     *)
(* last flush, in arrival order.                                           *)
(*                                                                         *)
(* layout is the item list of ui.scrollAreaWidgetContents.layout(); of a   *)
(* MessageWidget only is_bot, the message text and message_id are kept.    *)
(* ui.prompt's textChanged signal is connected to prompt_text_changed, so  *)
(* clear_prompt also empties self.prompt.  The progress bar, the scroll    *)
(* animation and the model load balancer calls of do_generate change no    *)
(* field read by the handlers and are left out.                            *)
(* strip_names_from_message is not part of the widget's file; the inputs   *)
(* used here carry no speaker-name prefix.                                 *)
(***************************************************************************)
EXTENDS Integers, Sequences, FiniteSets, TLC

\* ------------------------------------------------------------------ bounds
MaxWidgets == 2
MaxBuffer == 2
MaxConvText == 1
MaxLoad == 2

\* ------------------------------------------------------------------ texts
NoneText == <<"<None>">>
NoneId == -1
UserPrefix == "User: "
BotPrefix == "Bot: "
END == <<"[END]">>
Whitespace == {" "}

\* inputs of the handlers
Prompts == {<<>>, <<"a">>, <<"b">>, <<" ">>}
Fragments == {<<>>, <<"a">>, <<"b">>}
TokenVals == {<<"a">>, END}
\* the smaller inputs used where the texts themselves are not at issue
OnePrompt == {<<"a">>}
OneFragment == {<<"a">>}
EndOnly == {END}
ConvIds == {1, 2}
LoadMessages ==
  { [name |-> "Bot", content |-> <<"a">>, is_bot |-> TRUE],
    [name |-> "User", content |-> <<" ", "b">>, is_bot |-> FALSE],
    [name |-> "Bot", content |-> <<" ">>, is_bot |-> TRUE] }

RECURSIVE Join(_)
\* "".join(fragments)
Join(fragments) ==
  IF fragments = <<>> THEN <<>> ELSE Head(fragments) \o Join(Tail(fragments))

RECURSIVE lstrip(_)
\* str.lstrip(): drop the leading whitespace
lstrip(t) ==
  IF t # <<>> /\ Head(t) \in Whitespace THEN lstrip(Tail(t)) ELSE t

\* airunner.utils.llm.strip_names_from_message: drop a leading speaker name
strip_names_from_message(message, username, botname) ==
  LET m1 == IF message # <<>> /\ Head(message) = username
            THEN Tail(message) ELSE message
  IN IF m1 # <<>> /\ Head(m1) = botname THEN Tail(m1) ELSE m1

\* ------------------------------------------------------------------ state
VARIABLES prompt, generating, held_message, token_buffer,
          conversation_history, layout, spacer, conversation,
          conversation_id, ui_conversation, disabled, calls, ev, arrived,
          outstanding

vars == <<prompt, generating, held_message, token_buffer,
          conversation_history, layout, spacer, conversation,
          conversation_id, ui_conversation, disabled, calls, ev, arrived,
          outstanding>>

\* the object's fields as one record, so that a handler is a function on it
Self ==
  [prompt |-> prompt, generating |-> generating,
   held_message |-> held_message, token_buffer |-> token_buffer,
   conversation_history |-> conversation_history, layout |-> layout,
   spacer |-> spacer, conversation |-> conversation,
   conversation_id |-> conversation_id,
   ui_conversation |-> ui_conversation, disabled |-> disabled,
   calls |-> <<>>, raised |-> FALSE, held_at_send |-> NoneText,
   outstanding |-> outstanding, overlap |-> FALSE]

Commit(s) ==
  /\ prompt' = s.prompt
  /\ generating' = s.generating
  /\ held_message' = s.held_message
  /\ token_buffer' = s.token_buffer
  /\ conversation_history' = s.conversation_history
  /\ layout' = s.layout
  /\ spacer' = s.spacer
  /\ conversation' = s.conversation
  /\ conversation_id' = s.conversation_id
  /\ ui_conversation' = s.ui_conversation
  /\ disabled' = s.disabled
  /\ calls' = s.calls
  /\ outstanding' = s.outstanding

\* ------------------------------------------------------------------ layout
SpacerItem == [kind |-> "spacer", is_bot |-> FALSE, content |-> <<>>, message_id |-> 0]
MessageWidget(message, is_bot, message_id) ==
  [kind |-> "widget", is_bot |-> is_bot, content |-> message, message_id |-> message_id]

\* the rendered message entries, in display order
Messages(lay) == SelectSeq(lay, LAMBDA it : it.kind = "widget")
History == Messages(layout)

Call(op, arg) == [op |-> op, arg |-> arg]
Sends(cs) == SelectSeq(cs, LAMBDA c : c.op = "send_request")

Event(op, text, id) ==
  [op |-> op, text |-> text, id |-> id, submit |-> FALSE, node |-> FALSE,
   eom |-> FALSE, raised |-> FALSE, same |-> FALSE, messages |-> <<>>,
   noresp |-> FALSE, held_at_send |-> NoneText, had |-> 0,
   overlap |-> FALSE]

\* what the handler that produced s let its caller and the backend see:
\* whether it raised, held_message as it was when send_request was called,
\* and whether send_request was called while an earlier request had not been
\* answered by its end_of_message event
Observed(e, s) ==
  [e EXCEPT !.raised = s.raised, !.held_at_send = s.held_at_send,
            !.overlap = s.overlap]

Init ==
  /\ prompt = <<>>
  /\ generating = FALSE
  /\ held_message = NoneText
  /\ token_buffer = <<>>
  /\ conversation_history = <<>>
  /\ layout = <<>>
  /\ spacer = FALSE
  /\ conversation = NoneId
  /\ conversation_id = NoneId
  /\ ui_conversation = <<>>
  /\ disabled = FALSE
  /\ calls = <<>>
  /\ ev = Event("__init__", <<>>, NoneId)
  /\ arrived = <<>>
  /\ outstanding = FALSE

\* ------------------------------------------------------------- operations
\* variant: the backward scan gives up at the trailing spacer item
LastWidgetIndex_stops_at_spacer(lay) ==
  IF lay # <<>> /\ lay[Len(lay)].kind = "widget" THEN Len(lay) ELSE 0

\* position of the last MessageWidget of the layout, 0 when there is none:
\* the backward scan of add_message_to_conversation skips the spacer item
LastWidgetIndex(lay) ==
  LET idx == {i \in 1..Len(lay) : lay[i].kind = "widget"}
  IN IF idx = {} THEN 0 ELSE CHOOSE i \in idx : \A j \in idx : j <= i

remove_spacer(s) ==
  IF s.spacer
  THEN [s EXCEPT !.layout = SelectSeq(@, LAMBDA it : it.kind # "spacer")]
  ELSE s

add_spacer(s) ==
  [s EXCEPT !.spacer = TRUE, !.layout = Append(@, SpacerItem)]

\* MessageWidget.update_message: the widget shows the text it is given in
\* place of the text it showed
update_message(current_widget, message) ==
  [current_widget EXCEPT !.content = message]

\* variant: a streamed update is appended as a new entry, never merged
add_message_to_conversation_always_append(s, name, message, is_bot, first_message) ==
  LET msg == strip_names_from_message(
               IF first_message THEN lstrip(message) ELSE message,
               UserPrefix, BotPrefix)
      s1 == remove_spacer(s)
      count == Len(s1.layout) - 1
      total_widgets == IF count < 0 THEN 0 ELSE count
      s2 == IF msg # <<>>
            THEN [s1 EXCEPT !.layout =
                    Append(@, MessageWidget(msg, is_bot, total_widgets))]
            ELSE s1
  IN add_spacer(s2)

add_message_to_conversation(s, name, message, is_bot, first_message) ==
  LET msg == strip_names_from_message(
               IF first_message THEN lstrip(message) ELSE message,
               UserPrefix, BotPrefix)
      last == LastWidgetIndex(s.layout)
      appended ==
        LET s1 == remove_spacer(s)
            count == Len(s1.layout) - 1
            total_widgets == IF count < 0 THEN 0 ELSE count
            s2 == IF msg # <<>>
                  THEN [s1 EXCEPT !.layout =
                          Append(@, MessageWidget(msg, is_bot, total_widgets))]
                  ELSE s1
        IN add_spacer(s2)
  IN IF ~first_message /\ last # 0 /\ s.layout[last].is_bot
     THEN IF msg # <<>>
          THEN [s EXCEPT !.layout[last] = update_message(@, msg)]
          ELSE s
     ELSE appended

clear_prompt(s) == [s EXCEPT !.prompt = <<>>]

disable_send_button(s) == s

enable_send_button(s) == [s EXCEPT !.disabled = FALSE]

interrupt_button_clicked(s) ==
  enable_send_button(
    [s EXCEPT !.calls = Append(@, Call("interrupt", <<>>)),
              !.generating = FALSE])

\* variant: the empty-prompt validation is missing
do_generate_unvalidated(s, prompt_override) ==
  LET p == IF prompt_override = NoneText \/ prompt_override = <<>>
           THEN s.prompt ELSE prompt_override
  IN IF s.generating
     THEN IF s.held_message = NoneText
          THEN interrupt_button_clicked(
                 disable_send_button([s EXCEPT !.held_message = p]))
          ELSE s
     ELSE LET s1 == add_message_to_conversation(
                      [s EXCEPT !.generating = TRUE],
                      "User", s.prompt, FALSE, TRUE)
              s2 == clear_prompt(s1)
          IN [s2 EXCEPT !.calls = Append(@, Call("send_request", p)),
                             !.held_at_send = s.held_message,
                             !.overlap = s.outstanding,
                             !.outstanding = TRUE]

\* variant: a submit while generating replaces the prompt already held
do_generate_overwrites_held(s, prompt_override) ==
  LET p == IF prompt_override = NoneText \/ prompt_override = <<>>
           THEN s.prompt ELSE prompt_override
  IN IF p = NoneText \/ p = <<>>
     THEN s
     ELSE IF s.generating
          THEN interrupt_button_clicked(
                 disable_send_button([s EXCEPT !.held_message = p]))
          ELSE LET s1 == add_message_to_conversation(
                           [s EXCEPT !.generating = TRUE],
                           "User", s.prompt, FALSE, TRUE)
                   s2 == clear_prompt(s1)
               IN [s2 EXCEPT !.calls = Append(@, Call("send_request", p)),
                             !.held_at_send = s.held_message,
                             !.overlap = s.outstanding,
                             !.outstanding = TRUE]

do_generate(s, prompt_override) ==
  LET p == IF prompt_override = NoneText \/ prompt_override = <<>>
           THEN s.prompt ELSE prompt_override
  IN IF p = NoneText \/ p = <<>>
     THEN s
     ELSE IF s.generating
          THEN IF s.held_message = NoneText
               THEN interrupt_button_clicked(
                      disable_send_button([s EXCEPT !.held_message = p]))
               ELSE s
          ELSE LET s1 == add_message_to_conversation(
                           [s EXCEPT !.generating = TRUE],
                           "User", s.prompt, FALSE, TRUE)
                   s2 == clear_prompt(s1)
               IN [s2 EXCEPT !.calls = Append(@, Call("send_request", p)),
                             !.held_at_send = s.held_message,
                             !.overlap = s.outstanding,
                             !.outstanding = TRUE]

enable_generate(s) ==
  LET s1 == [s EXCEPT !.generating = FALSE]
      s2 == IF s1.held_message # NoneText
            THEN [do_generate(s1, s1.held_message)
                    EXCEPT !.held_message = NoneText]
            ELSE s1
  IN enable_send_button(s2)

RECURSIVE Reverse(_)
Reverse(q) == IF q = <<>> THEN <<>> ELSE Append(Reverse(Tail(q)), Head(q))

\* variant: the fragments are joined newest first
combined_message_newest_first(s) == Join(Reverse(s.token_buffer))

combined_message(s) == Join(s.token_buffer)

\* variant: the combined text is added as a whole message, not as an update
flush_token_buffer_as_first_message(s) ==
  LET combined == combined_message(s)
      s1 == [s EXCEPT !.token_buffer = <<>>]
      h == s1.conversation_history
  IN IF combined # <<>>
        /\ (Len(h) = 0 \/ ~h[Len(h)].is_bot
              \/ h[Len(h)].content # combined)
     THEN add_message_to_conversation(s1, "Bot", combined, TRUE, TRUE)
     ELSE s1

flush_token_buffer(s) ==
  LET combined == combined_message(s)
      s1 == [s EXCEPT !.token_buffer = <<>>]
      h == s1.conversation_history
  IN IF combined # <<>>
        /\ (Len(h) = 0 \/ ~h[Len(h)].is_bot
              \/ h[Len(h)].content # combined)
     THEN add_message_to_conversation(s1, "Bot", combined, TRUE, FALSE)
     ELSE s1

\* variant: the loop stops one item short and leaves the first item in place
clear_conversation_widgets_keeps_one(s) ==
  [s EXCEPT !.layout = IF @ = <<>> THEN <<>> ELSE <<Head(@)>>]

clear_conversation_widgets(s) == [s EXCEPT !.layout = <<>>]

clear_conversation(s) ==
  clear_conversation_widgets([s EXCEPT !.conversation_history = <<>>])

RECURSIVE set_conversation_widgets_streamed(_, _)
\* variant: loaded messages are inserted as streamed updates
set_conversation_widgets_streamed(s, messages) ==
  IF messages = <<>> THEN s
  ELSE set_conversation_widgets_streamed(
         add_message_to_conversation(s, Head(messages).name,
           Head(messages).content, Head(messages).is_bot, FALSE),
         Tail(messages))

RECURSIVE set_conversation_widgets(_, _)
set_conversation_widgets(s, messages) ==
  IF messages = <<>> THEN s
  ELSE set_conversation_widgets(
         add_message_to_conversation(s, Head(messages).name,
           Head(messages).content, Head(messages).is_bot, TRUE),
         Tail(messages))

\* conversation.setter
set_conversation(s, val) ==
  [s EXCEPT !.conversation = val, !.conversation_id = val]

\* conversation_id.setter; found: whether the Conversation row exists
set_conversation_id(s, val, found) ==
  [s EXCEPT !.conversation_id = val,
            !.conversation = IF val # NoneId /\ val # 0 /\ found
                             THEN val ELSE NoneId]

\* variant: the token callback feeds the token buffer
handle_token_signal_buffered(s, val) ==
  IF val # END
  THEN [s EXCEPT !.token_buffer = Append(@, val)]
  ELSE enable_send_button([s EXCEPT !.generating = FALSE])

handle_token_signal(s, val) ==
  IF val # END
  THEN [s EXCEPT !.ui_conversation = @ \o val]
  ELSE enable_send_button([s EXCEPT !.generating = FALSE])

on_load_conversation(s, cid, messages, found) ==
  IF cid # NoneId
  THEN LET s1 == set_conversation_id(s, cid, found)
           s2 == [s1 EXCEPT !.calls = Append(@, Call("clear_history", <<>>))]
       IN set_conversation_widgets(clear_conversation(s2), messages)
  ELSE set_conversation(clear_conversation(s), NoneId)

on_delete_conversation(s, cid) ==
  LET s1 == IF s.conversation_id = cid \/ s.conversation_id = NoneId
            THEN clear_conversation_widgets(s) ELSE s
  IN set_conversation(s1, NoneId)

\* llm_response: a record, or NoResponse when data carries no "response"
NoResponse == [message |-> NoneText, node_id |-> NoneId,
               is_first_message |-> FALSE, is_end_of_message |-> FALSE]

\* variant: a fragment is buffered only while a generation is in flight
on_add_bot_message_to_conversation_drops_late(s, llm_response) ==
  IF llm_response = NoResponse THEN [s EXCEPT !.raised = TRUE]
  ELSE IF llm_response.node_id # NoneId THEN s
  ELSE LET s1 == IF s.generating
                 THEN [s EXCEPT !.token_buffer = Append(@, llm_response.message)]
                 ELSE s
       IN IF llm_response.is_end_of_message
          THEN enable_generate([s1 EXCEPT !.outstanding = FALSE])
          ELSE s1

\* variant: an event without a response is dropped silently
on_add_bot_message_to_conversation_lenient(s, llm_response) ==
  IF llm_response = NoResponse THEN s
  ELSE IF llm_response.node_id # NoneId THEN s
  ELSE LET s1 == [s EXCEPT !.token_buffer = Append(@, llm_response.message)]
       IN IF llm_response.is_end_of_message
          THEN enable_generate([s1 EXCEPT !.outstanding = FALSE])
          ELSE s1

\* variant: events of another node are not filtered out
on_add_bot_message_to_conversation_any_node(s, llm_response) ==
  IF llm_response = NoResponse THEN [s EXCEPT !.raised = TRUE]
  ELSE LET s1 == [s EXCEPT !.token_buffer = Append(@, llm_response.message)]
       IN IF llm_response.is_end_of_message
          THEN enable_generate([s1 EXCEPT !.outstanding = FALSE])
          ELSE s1

on_add_bot_message_to_conversation(s, llm_response) ==
  IF llm_response = NoResponse THEN [s EXCEPT !.raised = TRUE]
  ELSE IF llm_response.node_id # NoneId THEN s
  ELSE LET s1 == [s EXCEPT !.token_buffer = Append(@, llm_response.message)]
       IN IF llm_response.is_end_of_message
          THEN enable_generate([s1 EXCEPT !.outstanding = FALSE])
          ELSE s1

\* ---------------------------------------------------------------- actions
Bounded(s) ==
  /\ Len(Messages(s.layout)) <= MaxWidgets
  /\ Len(s.token_buffer) <= MaxBuffer
  /\ Len(s.ui_conversation) <= MaxConvText

Responses(fragments) ==
  [message : fragments, node_id : {NoneId, 7},
   is_first_message : BOOLEAN, is_end_of_message : BOOLEAN]

SeqsUpTo(S, n) == UNION {[1..k -> S] : k \in 0..n}

PromptTextChanged ==
  \E t \in Prompts :
    LET s == [Self EXCEPT !.prompt = t] IN
    /\ Bounded(s)
    /\ Commit(s)
    /\ ev' = Event("prompt_text_changed", <<>>, NoneId)
    /\ arrived' = arrived

ActionButtonClickedSend ==
  LET s == do_generate(Self, NoneText) IN
  /\ Bounded(s)
  /\ Commit(s)
  /\ ev' = Observed([Event("action_button_clicked_send", <<>>, NoneId)
                       EXCEPT !.submit = TRUE], s)
  /\ arrived' = arrived

HandleKeyPress ==
  \E key \in {"Return", "Other"}, shift \in BOOLEAN :
    LET accepted == key = "Return" /\ ~disabled /\ ~shift
        s == IF accepted THEN do_generate(Self, NoneText) ELSE Self
    IN
    /\ Bounded(s)
    /\ Commit(s)
    /\ ev' = Observed([Event("handle_key_press", <<>>, NoneId)
                         EXCEPT !.submit = accepted], s)
    /\ arrived' = arrived

OnHearSignal(transcriptions) ==
  \E transcription \in transcriptions :
    LET s == do_generate([Self EXCEPT !.prompt = transcription], NoneText) IN
    /\ Bounded(s)
    /\ Commit(s)
    /\ ev' = Observed([Event("on_hear_signal", transcription, NoneId)
                         EXCEPT !.submit = TRUE], s)
    /\ arrived' = arrived

OnAddBotMessageToConversation(fragments) ==
  \E r \in Responses(fragments) \cup {NoResponse} :
    LET s == on_add_bot_message_to_conversation(Self, r) IN
    /\ Bounded(s)
    /\ Commit(s)
    /\ ev' = Observed(
               [Event("on_add_bot_message_to_conversation", <<>>, r.node_id)
                  EXCEPT !.node = (r.node_id # NoneId),
                         !.eom = r.is_end_of_message,
                         !.noresp = (r = NoResponse)], s)
    /\ arrived' = IF r = NoResponse \/ r.node_id # NoneId
                  THEN arrived ELSE Append(arrived, r.message)

\* ev.text: the combined text; ev.same: the last rendered entry was a bot
\* message that already held the combined text.  (For the clear handlers
\* ev.had is the number of rendered entries before the clear.)
FlushTokenBuffer ==
  LET s == flush_token_buffer(Self) IN
  /\ Bounded(s)
  /\ Commit(s)
  /\ ev' = [Event("flush_token_buffer", combined_message(Self), NoneId)
              EXCEPT !.same = (History # <<>> /\ History[Len(History)].is_bot
                               /\ History[Len(History)].content
                                    = combined_message(Self)),
                     !.had = Len(History)]
  /\ arrived' = <<>>

InterruptButtonClicked ==
  LET s == interrupt_button_clicked(Self) IN
  /\ Bounded(s)
  /\ Commit(s)
  /\ ev' = Event("interrupt_button_clicked", <<>>, NoneId)
  /\ arrived' = arrived

OnTokenSignal(vals) ==
  \E val \in vals :
    LET s == handle_token_signal(Self, val) IN
    /\ Bounded(s)
    /\ Commit(s)
    /\ ev' = Event("on_token_signal", val, NoneId)
    /\ arrived' = arrived

OnLoadConversation ==
  \E cid \in ConvIds \cup {NoneId}, messages \in SeqsUpTo(LoadMessages, MaxLoad),
     found \in BOOLEAN :
    LET s == on_load_conversation(Self, cid, messages, found) IN
    /\ Bounded(s)
    /\ Commit(s)
    /\ ev' = [Event("on_load_conversation", <<>>, cid)
                EXCEPT !.messages = messages]
    /\ arrived' = arrived

OnDeleteConversation ==
  \E cid \in ConvIds :
    LET s == on_delete_conversation(Self, cid) IN
    /\ Bounded(s)
    /\ Commit(s)
    /\ ev' = Event("on_delete_conversation", <<>>, cid)
    /\ arrived' = arrived

OnClearConversation ==
  LET s == clear_conversation(Self) IN
  /\ Bounded(s)
  /\ Commit(s)
  /\ ev' = [Event("on_clear_conversation", <<>>, NoneId)
              EXCEPT !.had = Len(History)]
  /\ arrived' = arrived

OnChatbotChanged ==
  LET s == clear_conversation(
             [Self EXCEPT !.calls = Append(@, Call("clear_history", <<>>))]) IN
  /\ Bounded(s)
  /\ Commit(s)
  /\ ev' = [Event("on_chatbot_changed", <<>>, NoneId)
              EXCEPT !.had = Len(History)]
  /\ arrived' = arrived

\* the generation session: prompt input, submission, streaming, flush
Next ==
  \/ PromptTextChanged
  \/ ActionButtonClickedSend
  \/ HandleKeyPress
  \/ OnHearSignal(Prompts)
  \/ OnAddBotMessageToConversation(OneFragment)
  \/ FlushTokenBuffer
  \/ InterruptButtonClicked
  \/ OnTokenSignal(EndOnly)

Spec == Init /\ [][Next]_vars

\* the token stream: fragments, flushes and the token callback within a turn
NextStream ==
  \/ OnHearSignal(OnePrompt)
  \/ OnAddBotMessageToConversation(Fragments)
  \/ FlushTokenBuffer
  \/ OnTokenSignal(TokenVals)

SpecStream == Init /\ [][NextStream]_vars

\* the conversation lifecycle: load, delete, clear, with streaming and flush
NextLifecycle ==
  \/ OnLoadConversation
  \/ OnDeleteConversation
  \/ OnClearConversation
  \/ OnChatbotChanged
  \/ OnAddBotMessageToConversation(OneFragment)
  \/ FlushTokenBuffer

SpecLifecycle == Init /\ [][NextLifecycle]_vars

\* ----------------------------------------------------------------- claims
Last(q) == q[Len(q)]
LastIsBot(h) == h # <<>> /\ Last(h).is_bot

\* the prompt a submit works on: the transcription for on_hear_signal, the
\* input text otherwise
EffectivePrompt == IF ev'.op = "on_hear_signal" THEN ev'.text ELSE prompt

\* the step handles an end_of_message event of the main node
EndOfMessageStep ==
  /\ ev'.op = "on_add_bot_message_to_conversation"
  /\ ev'.eom /\ ~ev'.node /\ ~ev'.noresp

\* the text add_message_to_conversation renders for a whole message
Shown(text) == strip_names_from_message(lstrip(text), UserPrefix, BotPrefix)
\* the text add_message_to_conversation renders for a streamed update
Streamed(text) == strip_names_from_message(text, UserPrefix, BotPrefix)

\* C1 (as stated): a non-empty submit while generating leaves the session
\* generating with the prompt held and sends nothing; end_of_message with a
\* held prompt issues exactly one send, of the held prompt, and clears
\* held_message.
C1_HoldAndRelease ==
  [][ /\ (ev'.submit /\ generating /\ EffectivePrompt # <<>>)
          => (generating' /\ held_message' # NoneText
              /\ Sends(calls') = <<>>)
      /\ (EndOfMessageStep /\ held_message # NoneText)
          => (/\ Len(Sends(calls')) = 1
              /\ Sends(calls')[1].arg = held_message
              /\ held_message' = NoneText) ]_vars

\* C2 (as stated): a step that issues a backend send appends exactly one
\* user entry to the rendered history, whose content is the prompt sent,
\* and leaves the session generating.
C2_SendRecordsItsPrompt ==
  [][ Sends(calls') # <<>>
        => (/\ Len(Sends(calls')) = 1
            /\ Len(History') = Len(History) + 1
            /\ ~Last(History').is_bot
            /\ Last(History').content = Sends(calls')[1].arg
            /\ generating') ]_vars

\* C3: a flush produces the concatenation, in arrival order, of the fragments
\* appended since the previous flush and empties the buffer; a flush that
\* directly follows a flush produces the empty text.
C3_FlushConcatenatesInOrder ==
  [][ ev'.op = "flush_token_buffer"
        => (/\ ev'.text = Join(arrived)
            /\ token_buffer' = <<>>
            /\ (ev.op = "flush_token_buffer" => ev'.text = <<>>)) ]_vars

\* two different fragments were appended and flushed, in their order
C3_Witness ==
  /\ ev.op = "flush_token_buffer"
  /\ ev.text = <<"a", "b">>
  /\ token_buffer = <<>>

\* C4: a submit whose effective prompt is empty changes neither the rendered
\* history, the generating flag, held_message nor the token buffer, calls
\* nothing on the backend and raises nothing.
C4_EmptySubmitIsNoOp ==
  [][ (ev'.submit /\ EffectivePrompt = <<>>)
        => (/\ layout' = layout
            /\ generating' = generating
            /\ held_message' = held_message
            /\ token_buffer' = token_buffer
            /\ calls' = <<>>
            /\ ~ev'.raised) ]_vars

\* an empty submit was handled while a generation was in flight
C4_Witness ==
  /\ ev.submit /\ ev.op = "action_button_clicked_send"
  /\ prompt = <<>> /\ calls = <<>>
  /\ generating /\ token_buffer # <<>> /\ History # <<>>

\* C5 (as stated): a streamed update with non-empty text after a bot entry
\* sets that entry's content to the text and keeps the length; a user
\* message added after a bot entry lengthens the history by exactly 1.
C5_MutateOrAppend_AsStated ==
  [][ /\ (ev'.op = "flush_token_buffer" /\ ev'.text # <<>>
            /\ LastIsBot(History))
          => (/\ Len(History') = Len(History)
              /\ Last(History').content = ev'.text)
      /\ (ev'.submit /\ Sends(calls') # <<>> /\ LastIsBot(History))
          => Len(History') = Len(History) + 1 ]_vars

\* C5 (amended): the streamed update stores the name-stripped text in the
\* tail bot entry when that text is non-empty; the user message is appended
\* as one entry exactly when its left-stripped, name-stripped text is
\* non-empty, and otherwise the history is unchanged.
C5_MutateOrAppend ==
  [][ /\ (ev'.op = "flush_token_buffer" /\ ev'.text # <<>>
            /\ LastIsBot(History))
          => (/\ Len(History') = Len(History)
              /\ IF Streamed(ev'.text) # <<>>
                 THEN Last(History').content = Streamed(ev'.text)
                 ELSE History' = History)
      /\ (ev'.submit /\ Sends(calls') # <<>> /\ LastIsBot(History))
          => IF Shown(EffectivePrompt) # <<>>
             THEN /\ Len(History') = Len(History) + 1
                  /\ SubSeq(History', 1, Len(History)) = History
                  /\ ~Last(History').is_bot
                  /\ Last(History').content = Shown(EffectivePrompt)
             ELSE History' = History ]_vars

\* a whitespace-only prompt was submitted after a bot message: sent, with
\* no entry appended
C5_Witness ==
  /\ ev.submit
  /\ calls = <<Call("send_request", <<" ">>)>>
  /\ LastIsBot(History)

\* C6: flushing a text that the tail bot entry already holds leaves the
\* rendered history as it is: no duplicate entry, same content.
C6_RepeatedFlushIdempotent ==
  [][ (ev'.op = "flush_token_buffer" /\ ev'.same /\ ev'.text # <<>>)
        => History' = History ]_vars

\* the text "a" was flushed onto a tail bot entry already holding "a"
C6_Witness ==
  /\ ev.op = "flush_token_buffer" /\ ev.same
  /\ ev.text = <<"a">>
  /\ Len(History) = 2 /\ Last(History).content = <<"a">>

\* the rendered entries as (is_bot, content) pairs
Entries(h) ==
  [i \in 1..Len(h) |-> [is_bot |-> h[i].is_bot, content |-> h[i].content]]

\* a message list as given, as (is_bot, content) pairs
AsGiven(messages) ==
  [i \in 1..Len(messages) |->
     [is_bot |-> messages[i].is_bot, content |-> messages[i].content]]

RECURSIVE RenderedFrom(_)
\* one entry per message whose rendered text is non-empty, in order
RenderedFrom(messages) ==
  IF messages = <<>> THEN <<>>
  ELSE LET m == Head(messages)
       IN (IF Shown(m.content) # <<>>
           THEN <<[is_bot |-> m.is_bot, content |-> Shown(m.content)]>>
           ELSE <<>>) \o RenderedFrom(Tail(messages))

\* C7 (as stated): after on_load_conversation, whatever the conversation_id
\* (an integer or none) and the prior history, the rendered history is
\* exactly the given messages, in order, one entry per message.
C7_LoadReplacesHistory_AsStated ==
  [][ ev'.op = "on_load_conversation"
        => Entries(History') = AsGiven(ev'.messages) ]_vars

\* C7 (amended): with a conversation_id that is not none, the rendered
\* history is one entry per message whose left-stripped, name-stripped
\* content is non-empty, in the given order, holding that stripped content,
\* with no merging of consecutive bot messages; with no conversation_id the
\* rendered history is empty.
C7_LoadReplacesHistory ==
  [][ ev'.op = "on_load_conversation"
        => Entries(History') =
             IF ev'.id = NoneId THEN <<>> ELSE RenderedFrom(ev'.messages) ]_vars

\* two consecutive bot messages were loaded and are rendered as two entries
C7_Witness ==
  /\ ev.op = "on_load_conversation" /\ ev.id # NoneId
  /\ Len(ev.messages) = 2
  /\ ev.messages[1].is_bot /\ ev.messages[2].is_bot
  /\ Len(History) = 2
  /\ History[1].is_bot /\ History[2].is_bot

\* C8 (as stated): on_delete_conversation clears the rendered view when the
\* deleted id is the active one or none is active; otherwise the rendered
\* entries, the active conversation and its id are unchanged.
C8_DeleteOtherIsNoOp ==
  [][ ev'.op = "on_delete_conversation"
        => IF conversation_id = ev'.id \/ conversation_id = NoneId
           THEN History' = <<>>
           ELSE /\ layout' = layout
                /\ conversation' = conversation
                /\ conversation_id' = conversation_id ]_vars

\* C9: a message event with node_id set changes neither the token buffer,
\* the generating flag, held_message nor the rendered history, and issues
\* no backend call, also when it is an end_of_message event.
C9_NodeEventIgnored ==
  [][ (ev'.op = "on_add_bot_message_to_conversation" /\ ev'.node)
        => (/\ token_buffer' = token_buffer
            /\ generating' = generating
            /\ held_message' = held_message
            /\ layout' = layout
            /\ calls' = <<>>) ]_vars

\* an end_of_message event of another node was handled while a prompt was
\* held and a generation was in flight
C9_Witness ==
  /\ ev.op = "on_add_bot_message_to_conversation"
  /\ ev.node /\ ev.eom
  /\ generating /\ held_message # NoneText
  /\ calls = <<>>

\* C10 (as stated): the token callback appends the received fragment to the
\* token buffer.
C10_TokenFeedsBuffer_AsStated ==
  [][ ev'.op = "on_token_signal"
        => token_buffer' = Append(token_buffer, ev'.text) ]_vars

\* C10 (amended): the token callback leaves the token buffer and the
\* rendered history alone: a fragment other than "[END]" is appended to the
\* plain-text conversation view, and "[END]" sets generating to false.
C10_TokenFeedsPlainText ==
  [][ ev'.op = "on_token_signal"
        => (/\ token_buffer' = token_buffer
            /\ layout' = layout
            /\ IF ev'.text # END
               THEN /\ ui_conversation' = ui_conversation \o ev'.text
                    /\ generating' = generating
               ELSE /\ ui_conversation' = ui_conversation
                    /\ ~generating') ]_vars

\* the fragment "a" went to the plain-text view, not to the token buffer
C10_Witness ==
  /\ ev.op = "on_token_signal" /\ ev.text = <<"a">>
  /\ ui_conversation = <<"a">>
  /\ token_buffer = << <<"b">> >>

\* C11: a message event without a response raises to its caller and changes
\* nothing: the token buffer, the generating flag, held_message and the
\* rendered history keep their values and no backend call is made.
C11_MissingResponseRaises ==
  [][ (ev'.op = "on_add_bot_message_to_conversation" /\ ev'.noresp)
        => (/\ ev'.raised
            /\ token_buffer' = token_buffer
            /\ generating' = generating
            /\ held_message' = held_message
            /\ layout' = layout
            /\ calls' = <<>>) ]_vars

\* an event without a response was rejected while a generation was in
\* flight, a prompt was held and tokens were buffered
C11_Witness ==
  /\ ev.op = "on_add_bot_message_to_conversation"
  /\ ev.noresp /\ ev.raised
  /\ generating /\ held_message # NoneText /\ token_buffer # <<>>

\* C12 (as stated): held_message is set only while generating is true.
C12_HeldOnlyWhileGenerating ==
  held_message # NoneText => generating

\* C13 (as stated): a non-empty prompt submitted while generating, with a
\* prompt already held, becomes the held prompt.
C13_LastWriteWins_AsStated ==
  [][ (/\ ev'.submit /\ generating /\ held_message # NoneText
       /\ EffectivePrompt # <<>>)
        => held_message' = EffectivePrompt ]_vars

\* C13 (amended): a non-empty prompt submitted while generating, with a
\* prompt already held, is dropped: held_message keeps the prompt held first,
\* nothing is sent and the rendered history is unchanged; the send issued at
\* end_of_message carries the prompt held then.
C13_FirstWriteWins ==
  [][ /\ (/\ ev'.submit /\ generating /\ held_message # NoneText
          /\ EffectivePrompt # <<>>)
          => (/\ held_message' = held_message
              /\ calls' = <<>>
              /\ layout' = layout)
      /\ (EndOfMessageStep /\ held_message # NoneText)
          => (/\ Len(Sends(calls')) = 1
              /\ Sends(calls')[1].arg = held_message) ]_vars

\* a prompt other than the held one was submitted while generating and the
\* held prompt was kept
C13_Witness ==
  /\ ev.op = "on_hear_signal" /\ ev.submit
  /\ ev.text # <<>> /\ ev.text # held_message
  /\ held_message # NoneText
  /\ generating
  /\ calls = <<>>

\* C14 (as stated): the generating flag goes from true to false only in a
\* step that handles an end_of_message event of the main node.
C14_LeavesGeneratingOnlyAtEndOfMessage ==
  [][ (generating /\ ~generating') => EndOfMessageStep ]_vars

\* C15: after on_clear_conversation or on_chatbot_changed, whatever the state
\* before, conversation_history is empty and the layout holds no message
\* entry.
C15_ClearEmptiesHistoryAndView ==
  [][ ev'.op \in {"on_clear_conversation", "on_chatbot_changed"}
        => (/\ conversation_history' = <<>>
            /\ History' = <<>>
            /\ layout' = <<>>) ]_vars

\* a chatbot change cleared a view that showed two entries
C15_Witness ==
  /\ ev.op = "on_chatbot_changed"
  /\ ev.had >= 2
  /\ History = <<>>

\* C16 (as stated): an entry appended to the history gets a message_id equal
\* to the number of message entries before the append, so no two entries of
\* the history share an id.
C16_SequenceIdIsEntryCount ==
  [][ Len(History') = Len(History) + 1
        => (/\ Last(History').message_id = Len(History)
            /\ \A i \in 1..Len(History) :
                 History'[i].message_id < Last(History').message_id) ]_vars

\* C17 (as stated): when end_of_message releases a held prompt, held_message
\* is already None at the moment the backend send is issued.
C17_HeldClearedBeforeResubmission ==
  [][ (EndOfMessageStep /\ held_message # NoneText /\ Sends(calls') # <<>>)
        => ev'.held_at_send = NoneText ]_vars

\* C18 (as stated): while a prompt is held, a submit attempt by the send
\* button or the Return key is not accepted: it sends nothing and changes
\* neither the history nor held_message.
C18_SubmitDisabledWhileHeld ==
  [][ (/\ held_message # NoneText
       /\ ev'.op \in {"action_button_clicked_send", "handle_key_press"})
        => (/\ Sends(calls') = <<>>
            /\ History' = History
            /\ held_message' = held_message) ]_vars

\* C19: in every session state a message event of the main node appends its
\* text to the token buffer, and the next flush puts the text that arrived
\* since the last flush into the tail bot entry of the rendered history.
C19_LateTokensBufferedAndFlushed ==
  [][ /\ (/\ ev'.op = "on_add_bot_message_to_conversation"
          /\ ~ev'.node /\ ~ev'.noresp)
          => (/\ Len(arrived') = Len(arrived) + 1
              /\ token_buffer' = Append(token_buffer, Last(arrived')))
      /\ (ev'.op = "flush_token_buffer" /\ Streamed(Join(arrived)) # <<>>)
          => (/\ LastIsBot(History')
              /\ Last(History').content = Streamed(Join(arrived))) ]_vars

\* a fragment arrived after a hold had interrupted the generation (prompt
\* held, generating false) and was buffered
C19_Witness ==
  /\ ev.op = "on_add_bot_message_to_conversation"
  /\ ~ev.node /\ ~ev.noresp /\ ~ev.eom
  /\ ~generating /\ held_message # NoneText
  /\ token_buffer = << <<"a">> >>

\* C20: a flush appends a bot entry only when the rendered history is empty
\* or ends with a user entry, and otherwise keeps the number of entries; no
\* two bot entries are ever adjacent in the rendered history.
C20_OneOpenBotMessage ==
  [][ /\ ev'.op = "flush_token_buffer"
          => IF LastIsBot(History)
             THEN /\ Len(History') = Len(History)
                  /\ LastIsBot(History')
             ELSE \/ History' = History
                  \/ /\ Len(History') = Len(History) + 1
                     /\ LastIsBot(History')
                     /\ SubSeq(History', 1, Len(History)) = History
      /\ \A i \in 1..(Len(History') - 1) :
           ~(History'[i].is_bot /\ History'[i + 1].is_bot) ]_vars

\* a flush of new text onto a tail bot entry that follows a user entry kept
\* the number of entries
C20_Witness ==
  /\ ev.op = "flush_token_buffer" /\ ~ev.same /\ ev.text # <<>>
  /\ ev.had = 2 /\ Len(History) = 2
  /\ ~History[1].is_bot /\ History[2].is_bot
  /\ History[2].content = Streamed(ev.text)

\* C21 (as stated): no backend send is issued between a send and the
\* end_of_message event that completes it.
C21_OneGenerationOutstanding ==
  [][ Sends(calls') # <<>> => ~ev'.overlap ]_vars

\* C22 (as stated): when the user entry of the next turn is appended while a
\* response is awaited or being completed, by a held prompt released at
\* end_of_message or by a submit, no text of that response is still waiting
\* in the token buffer.
C22_ResponseRenderedBeforeNextTurn ==
  [][ (/\ outstanding
       /\ Len(History') = Len(History) + 1
       /\ ~Last(History').is_bot)
        => Join(token_buffer') = <<>> ]_vars

\* C23 (as stated): while a response is awaited, a non-empty flush of text
\* other than what its bot entry shows extends the entry's content by the
\* flushed text, so that after the last flush the entry holds all tokens of
\* the response in arrival order.
C23_NoStreamedTextLost ==
  [][ (/\ outstanding
       /\ ev'.op = "flush_token_buffer" /\ ~ev'.same
       /\ Streamed(ev'.text) # <<>>
       /\ LastIsBot(History))
        => Last(History').content
             = Last(History).content \o Streamed(ev'.text) ]_vars

\* C24 (as stated): a flush that directly follows a clear or a load, with no
\* token arriving in between, leaves the cleared or loaded history as it is.
C24_ClearDiscardsPendingText ==
  [][ (/\ ev'.op = "flush_token_buffer"
       /\ ev.op \in {"on_clear_conversation", "on_chatbot_changed",
                     "on_load_conversation"})
        => History' = History ]_vars

\* C25 (as stated): conversation_history holds one record per rendered
\* message entry, in display order, with the same is_bot flag and content.
C25_HistoryBacksView ==
  /\ Len(conversation_history) = Len(History)
  /\ \A i \in 1..Len(History) :
       /\ conversation_history[i].is_bot = History[i].is_bot
       /\ conversation_history[i].content = History[i].content

====
